---- MODULE Spec2Model ----
(***************************************************************************)
(* Model of mex-artificial: the faker providers of                        *)
(* src/mex/artificial/provider.py and the generators of                   *)
(* src/mex/artificial/helpers.py.                                         *)
(*                                                                         *)
(* The schema registry (mex.common.models), the identity provider         *)
(* (mex.common.identity) and pydantic's validation are external to the    *)
(* repository.  They enter the model as a small sample schema, as an      *)
(* allocator that hands out one id per (primary source, local id) pair,   *)
(* and as the list-length check pydantic performs on the sample schema.   *)
(***************************************************************************)
EXTENDS Integers, Sequences, FiniteSets, TLC

VARIABLES
    generator,      \* which generator function of helpers.py is running
    pc,             \* position of the generator / of the provider call in flight
    index,          \* `index` of `for index in count()` (helpers.py:95)
    action,         \* value of faker.random_int(0, 2), helpers.py:96
    ids_by_type,    \* the registry: stem type -> ordered ids (OrderedDict keys)
    identities,     \* database of the identity provider: (ps, local) by id
    attempts_left,  \* `_attempts_left` of the provider call in flight, or of
                    \* the call that ended last
    attempts,       \* number of records that call has validated
    item,           \* local `item` of the generator in this iteration
    rule_set,       \* local `rule_set` of the generator in this iteration
    yielded,        \* the element yielded last
    n_yielded,      \* number of elements yielded so far
    error,          \* exception that left the generator, "none" if none
    provider_call,  \* a provider method called on its own: method and arguments
    result,         \* what that call has done so far and what it returned
    random,         \* faker.generator.random: the seed and the draws made
    sessions        \* the generators created: seed, started or not, output

vars == <<generator, pc, index, action, ids_by_type, identities, attempts_left,
          attempts, item, rule_set, yielded, n_yielded, error,
          provider_call, result, random, sessions>>

\* the variables of the generators of helpers.py
generator_vars == <<generator, pc, index, action, ids_by_type, identities,
                    attempts_left, attempts, item, rule_set, yielded, n_yielded,
                    error>>

(***************************************************************************)
(* Bounds of the model.                                                    *)
(***************************************************************************)
MaxSteps == 2       \* iterations of the generator loop explored
MaxDraw == 1        \* largest drawn max_items explored (of 1,2,3,4,5,10)
AttemptsCap == 12   \* the count of validated records stops growing here
LiveSteps == 1      \* iterations explored under LiveSpec
MaxDigit == 1       \* largest digit numerify draws (of 0..9)
MaxPulls == 2       \* iterations pulled from each of two generators
StreamPulls == 3    \* iterations pulled whole from one generator

(***************************************************************************)
(* Program constants.                                                      *)
(***************************************************************************)
DEFAULT_GENERATION_ATTEMPTS == 10
AttemptsLeftDefault == 10
MEX_PRIMARY_SOURCE_STABLE_TARGET_ID == 0
None == -1          \* Python's None among field values (ids and ints are >= 0)
NumerifyRange == 10 \* range(10) of numerify_patterns

Range(s) == {s[i] : i \in 1..Len(s)}

\* all orders in which the elements of a set can be listed: list(set(values))
ListsOfSet(S) == {s \in [1..Cardinality(S) -> S] : Range(s) = S}

NoDuplicates(s) == \A i, j \in 1..Len(s) : s[i] = s[j] => i = j

(***************************************************************************)
(* Python values that are passed where the arguments of                    *)
(* standalone_rule_set are: an int or the registry mapping.                *)
(***************************************************************************)
AllStemTypes ==
    {"PrimarySource", "Organization", "OrganizationalUnit", "Person", "Activity",
     "Variable"}

EmptyRegistry == [t \in AllStemTypes |-> <<>>]

PyInt(n) == [tag |-> "int", int |-> n, map |-> EmptyRegistry]

PyMap(m) == [tag |-> "dict", int |-> 0, map |-> m]

\* an f-string: the literal part and the formatted value
FString(prefix, value) == [prefix |-> prefix, value |-> value]

(***************************************************************************)
(* Sample schema.  A field is a list field with the stated arms of its     *)
(* union type; an arm is what RandomFieldInfo holds of it: the inner type  *)
(* (an Identifier type naming the referenced stem types, `str`, `int`, or  *)
(* a type no strategy of field_value_factory matches) and the regex        *)
(* patterns and examples of the field.  A string of the sample is a        *)
(* sequence of digits; a regex pattern is a sequence of character classes  *)
(* (sets of digits), anchored at its end or not.                           *)
(***************************************************************************)
Arm(kind, targets, constrained, regex_patterns, examples) ==
    [kind |-> kind, targets |-> targets, constrained |-> constrained,
     regex_patterns |-> regex_patterns, examples |-> examples]

RefArm(targets) == Arm("Identifier", targets, FALSE, <<>>, <<>>)

IntArm == Arm("int", <<>>, FALSE, <<>>, <<>>)

ObjectArm == Arm("object", <<>>, FALSE, <<>>, <<>>)

\* a str subclass that validates a pattern of its own, which is no metadata
\* of the field (as Email does)
EmailArm == Arm("str", <<>>, TRUE, <<>>, <<>>)

\* a str with Field(pattern=..., examples=[...]): two regex patterns, "a 1
\* first" and "a single 0", and examples of two digits and of one
DoiArm ==
    Arm("str", <<>>, FALSE,
        << [classes |-> << {1} >>, anchored |-> FALSE],
           [classes |-> << {0} >>, anchored |-> TRUE] >>,
        << <<1, 0>>, <<1>> >>)

Field(name, arms, is_list, required, min_length, max_length) ==
    [name |-> name, arms |-> arms, is_list |-> is_list, required |-> required,
     min_length |-> min_length, max_length |-> max_length]

\* fields of the extracted model class of a stem type, other than the
\* provenance fields; min_length/max_length 0 means "not declared"
ModelFields(stem_type) ==
    CASE stem_type = "Organization" ->
            << Field("email", {EmailArm}, TRUE, FALSE, 0, 0) >>
      [] stem_type = "OrganizationalUnit" ->
            << Field("parentUnit", {RefArm(<<"OrganizationalUnit">>)},
                     FALSE, FALSE, 0, 0) >>
      [] stem_type = "Person" ->
            << Field("affiliation", {RefArm(<<"Organization">>)}, TRUE, FALSE, 0, 0) >>
      [] stem_type = "Activity" ->
            << Field("contact", {RefArm(<<"Person">>), RefArm(<<"Organization">>)},
                     TRUE, TRUE, 1, 0) >>
      [] stem_type = "Variable" ->
            << Field("codingSystem", {IntArm, ObjectArm}, FALSE, FALSE, 0, 0) >>
      [] stem_type = "Resource" ->
            << Field("doi", {DoiArm}, TRUE, FALSE, 0, 0),
               Field("contributor", {RefArm(<<"Person">>)}, TRUE, FALSE, 1, 2),
               Field("license", {IntArm}, FALSE, TRUE, 0, 0) >>
      [] OTHER -> << >>

\* fields of the additive rule class that are not literal fields: the same
\* fields, none of them required
AdditiveFields(stem_type) ==
    [i \in 1..Len(ModelFields(stem_type)) |->
        [ModelFields(stem_type)[i] EXCEPT !.required = FALSE, !.min_length = 0]]

\* the allow-list handed to the generators
stem_types == <<"Organization", "Activity", "Variable">>

(***************************************************************************)
(* BuilderProvider: cardinality, type resolution, value factories.        *)
(* A random draw is a choice from the set of values it can return, so an  *)
(* operator that draws returns the set of its possible results.           *)
(***************************************************************************)
MaxItemsChoices == {1, 2, 3, 4, 5, 10}

\* min_max_for_field as it would be without `max_items += min_items`
min_max_for_field_MaxNotRaised(field) ==
    IF field.is_list
    THEN IF field.max_length > 0
         THEN {<<field.min_length, field.max_length>>}
         ELSE {<<field.min_length, c>> :
                  c \in {x \in MaxItemsChoices : x <= MaxDraw}}
    ELSE {<<IF field.required THEN 1 ELSE 0, 1>>}

\* the possible (min_items, max_items) of a field
min_max_for_field(field) ==
    IF field.is_list
    THEN IF field.max_length > 0
         THEN {<<field.min_length, field.max_length>>}
         ELSE {<<field.min_length, c + field.min_length>> :
                  c \in {x \in MaxItemsChoices : x <= MaxDraw}}
    ELSE {<<IF field.required THEN 1 ELSE 0, 1>>}

\* re.sub(r"[0-9]", "#", e): every digit of an example becomes a wildcard
NumerifyPattern(example) == [i \in 1..Len(example) |-> "#"]

\* RandomFieldInfo of one arm: its inner type, the numerify patterns made of
\* its examples, its regex patterns and its examples
RandomFieldInfo(arm) ==
    [kind |-> arm.kind, targets |-> arm.targets, constrained |-> arm.constrained,
     numerify_patterns |->
         [i \in 1..Len(arm.examples) |-> NumerifyPattern(arm.examples[i])],
     regex_patterns |-> arm.regex_patterns,
     examples |-> arm.examples]

\* the possible resolved types of a field: one arm of the union
get_random_field_info(field) == {RandomFieldInfo(arm) : arm \in field.arms}

\* reference as it would be if the ids of every stem type were collected,
\* not only those of the stem types the inner type names
reference_AnyType(inner_type, ids) ==
    IF inner_type.targets = <<>>
    THEN [err |-> "none", values |-> {None}]
    ELSE IF ids.tag # "dict"
    THEN [err |-> "TypeError", values |-> {}]
    ELSE LET choices == UNION {Range(ids.map[t]) : t \in AllStemTypes}
         IN  IF choices # {}
             THEN [err |-> "none", values |-> choices]
             ELSE [err |-> "none", values |-> {None}]

\* ReferenceProvider.reference: the ids of the referenced stem types, one
\* of them if there is any, None otherwise; subscripting a value that is
\* no mapping raises TypeError
reference(inner_type, ids) ==
    IF inner_type.targets = <<>>
    THEN [err |-> "none", values |-> {None}]
    ELSE IF ids.tag # "dict"
    THEN [err |-> "TypeError", values |-> {}]
    ELSE LET choices == UNION {Range(ids.map[inner_type.targets[k]]) :
                                  k \in 1..Len(inner_type.targets)}
         IN  IF choices # {}
             THEN [err |-> "none", values |-> choices]
             ELSE [err |-> "none", values |-> {None}]

\* values random_int is taken to return
RandomInts == {0, 1}

\* a string as a field value: the digits after a leading 1, read as a
\* decimal number; 0 stands for a string of words
RECURSIVE EncodeStr(_)
EncodeStr(s) ==
    IF s = <<>> THEN 1
    ELSE 10 * EncodeStr(SubSeq(s, 1, Len(s) - 1)) + s[Len(s)]

\* values text_string is taken to return
Words == {0}

\* the digits numerify puts in place of a wildcard
Digits == 0..MaxDigit

\* Faker's numerify: every "#" of the pattern replaced by a random digit
numerify(numerify_pattern) == [1..Len(numerify_pattern) -> Digits]

\* re.match as it would be if every numerified string were accepted
re_match_Always(regex_pattern, numerified) == TRUE

\* re.match(regex_pattern, numerified): a match at the start of the string
re_match(regex_pattern, numerified) ==
    /\ Len(numerified) >= Len(regex_pattern.classes)
    /\ regex_pattern.anchored => Len(numerified) = Len(regex_pattern.classes)
    /\ \A i \in 1..Len(regex_pattern.classes) :
          numerified[i] \in regex_pattern.classes[i]

\* what one turn of the loop of numerify_patterns can draw
NumerifyDraws(numerify_patterns, regex_patterns) ==
    UNION {{[regex_pattern |-> regex_pattern, numerified |-> numerified] :
              numerified \in numerify(numerify_pattern)} :
           <<numerify_pattern, regex_pattern>> \in
              Range(numerify_patterns) \X Range(regex_patterns)}

\* the values numerify_patterns can return with `turns` turns left: a
\* numerified string that matches, or another turn; None after the last
RECURSIVE NumerifyTurns(_, _, _)
NumerifyTurns(numerify_patterns, regex_patterns, turns) ==
    IF turns = 0 THEN {None}
    ELSE LET draws == NumerifyDraws(numerify_patterns, regex_patterns)
         IN  {EncodeStr(d.numerified) :
                 d \in {x \in draws : re_match(x.regex_pattern, x.numerified)}}
             \cup (IF \E d \in draws : ~re_match(d.regex_pattern, d.numerified)
                   THEN NumerifyTurns(numerify_patterns, regex_patterns, turns - 1)
                   ELSE {})

\* NumerifyPatternsProvider.numerify_patterns: for _ in range(10)
numerify_patterns(numerify_patterns_, regex_patterns) ==
    NumerifyTurns(numerify_patterns_, regex_patterns, NumerifyRange)

\* field_value_factory as it would be if a type without strategy got a
\* factory that returns no value instead of the RuntimeError
field_value_factory_SkipUnknown(field_info, ids) ==
    CASE field_info.regex_patterns # <<>> /\ field_info.numerify_patterns # <<>> ->
            [err |-> "none",
             call |-> [err |-> "none",
                       values |-> numerify_patterns(field_info.numerify_patterns,
                                                    field_info.regex_patterns)]]
      [] field_info.regex_patterns # <<>> /\ field_info.examples # <<>> ->
            [err |-> "none",
             call |-> [err |-> "none",
                       values |-> {EncodeStr(e) : e \in Range(field_info.examples)}]]
      [] field_info.kind = "Identifier" ->
            [err |-> "none", call |-> reference(field_info, ids)]
      [] field_info.kind = "str" ->
            [err |-> "none", call |-> [err |-> "none", values |-> Words]]
      [] field_info.kind = "int" ->
            [err |-> "none", call |-> [err |-> "none", values |-> RandomInts]]
      [] OTHER ->
            [err |-> "none", call |-> [err |-> "none", values |-> {None}]]

\* the factory of a resolved type: what one call of it can do, or the
\* RuntimeError "Cannot create fake data" when no strategy matches
field_value_factory(field_info, ids) ==
    CASE field_info.regex_patterns # <<>> /\ field_info.numerify_patterns # <<>> ->
            [err |-> "none",
             call |-> [err |-> "none",
                       values |-> numerify_patterns(field_info.numerify_patterns,
                                                    field_info.regex_patterns)]]
      [] field_info.regex_patterns # <<>> /\ field_info.examples # <<>> ->
            [err |-> "none",
             call |-> [err |-> "none",
                       values |-> {EncodeStr(e) : e \in Range(field_info.examples)}]]
      [] field_info.kind = "Identifier" ->
            [err |-> "none", call |-> reference(field_info, ids)]
      [] field_info.kind = "str" ->
            [err |-> "none", call |-> [err |-> "none", values |-> Words]]
      [] field_info.kind = "int" ->
            [err |-> "none", call |-> [err |-> "none", values |-> RandomInts]]
      [] OTHER ->
            [err |-> "RuntimeError", call |-> [err |-> "none", values |-> {}]]

\* DrawnLists as it would be if the values were returned as drawn, without
\* list(set(values))
DrawnLists_NoDedup(n, call) ==
    IF n = 0 THEN {[err |-> "none", values |-> <<>>]}
    ELSE IF call.err # "none" THEN {[err |-> call.err, values |-> <<>>]}
    ELSE {[err |-> "none",
           values |-> LET NotNone(v) == v # None IN SelectSeq(d, NotNone)] :
          d \in [1..n -> call.values]}

\* the lists field_value can return for a drawn count n and a factory:
\* n calls, None dropped, duplicates collapsed by list(set(values))
DrawnLists(n, call) ==
    IF n = 0 THEN {[err |-> "none", values |-> <<>>]}
    ELSE IF call.err # "none" THEN {[err |-> call.err, values |-> <<>>]}
    ELSE UNION {{[err |-> "none", values |-> l] :
                    l \in ListsOfSet(Range(d) \ {None})} :
                d \in [1..n -> call.values]}

\* the possible results of field_value once the type field_info and the
\* bounds mm are drawn: the factory is built first, then pyint(*mm) calls
\* of it are made
FieldValueWith(field_info, mm, ids) ==
    LET factory == field_value_factory(field_info, ids)
    IN  IF factory.err # "none"
        THEN {[err |-> factory.err, values |-> <<>>]}
        ELSE UNION {DrawnLists(n, factory.call) : n \in mm[1]..mm[2]}

\* the possible results of field_value: an exception or a list of values
field_value(field, ids) ==
    UNION {UNION {FieldValueWith(field_info, mm, ids) :
                  mm \in min_max_for_field(field)} :
           field_info \in get_random_field_info(field)}

\* populating the fields of a class one after the other: the values of all
\* fields, or the first exception
FirstError(o) ==
    IF \E i \in 1..Len(o) : o[i].err # "none"
    THEN o[CHOOSE i \in 1..Len(o) :
              /\ o[i].err # "none"
              /\ \A j \in 1..(i - 1) : o[j].err = "none"].err
    ELSE "none"

PopulateFields(fields, ids) ==
    {IF FirstError(o) # "none"
     THEN [err |-> FirstError(o), values |-> <<>>]
     ELSE [err |-> "none", values |-> [i \in 1..Len(fields) |-> o[i].values]] :
     o \in {f \in [1..Len(fields) -> UNION {field_value(fields[i], ids) :
                                                i \in 1..Len(fields)}] :
               \A i \in 1..Len(fields) : f[i] \in field_value(fields[i], ids)}}

\* a value is accepted as an arm's type: a string of words is not accepted
\* by a str subclass that validates a pattern
ValueFits(arm, value) == ~(arm.kind = "str" /\ arm.constrained /\ value \in Words)

\* pydantic's verdict on the populated fields of a class of the schema
ModelValidate(fields, values) ==
    \A i \in 1..Len(fields) :
        /\ \A k \in 1..Len(values[i]) :
              \E arm \in fields[i].arms : ValueFits(arm, values[i][k])
        /\ IF fields[i].is_list
           THEN /\ Len(values[i]) >= fields[i].min_length
                /\ fields[i].max_length > 0 => Len(values[i]) <= fields[i].max_length
           ELSE /\ Len(values[i]) <= 1
                /\ fields[i].required => Len(values[i]) = 1

(***************************************************************************)
(* Records: extracted items, rule-sets, the identity provider.            *)
(***************************************************************************)
NoItem ==
    [stemType |-> "None", hadPrimarySource |-> 0,
     identifierInPrimarySource |-> FString("", PyInt(0)), values |-> <<>>,
     stableTargetId |-> 0, validated |-> FALSE]

NoRuleSet ==
    [stemType |-> "None", stableTargetId |-> 0, seed |-> FString("", PyInt(0)),
     rules |-> {}, additive |-> <<>>, validated |-> FALSE]

\* built with model_construct, which runs no validation
MEX_PRIMARY_SOURCE ==
    [stemType |-> "PrimarySource",
     hadPrimarySource |-> MEX_PRIMARY_SOURCE_STABLE_TARGET_ID,
     identifierInPrimarySource |-> FString("mex", PyInt(0)), values |-> <<>>,
     stableTargetId |-> MEX_PRIMARY_SOURCE_STABLE_TARGET_ID, validated |-> FALSE]

\* the pair as it would be if the extracted_item argument were dropped
ExtractedItemAndRuleSet_RuleSetOnly(extracted_item, rule_set_) ==
    [extracted_item |-> NoItem, rule_set |-> rule_set_]

\* the pair as it would be if the rule_set argument were dropped
ExtractedItemAndRuleSet_ItemOnly(extracted_item, rule_set_) ==
    [extracted_item |-> extracted_item, rule_set |-> NoRuleSet]

ExtractedItemAndRuleSet(extracted_item, rule_set_) ==
    [extracted_item |-> extracted_item, rule_set |-> rule_set_]

\* the identity provider: the id of a (primary source, local id) pair is
\* its position in the provider's database, a new position for a new pair
IdentityKey(ps, local) == [ps |-> ps, local |-> local]

\* AssignedId as it would be if new identities were numbered from 0
AssignedId_FromZero(db, ps, local) ==
    IF \E k \in 1..Len(db) : db[k] = IdentityKey(ps, local)
    THEN CHOOSE k \in 1..Len(db) : db[k] = IdentityKey(ps, local)
    ELSE Len(db)

AssignedId(db, ps, local) ==
    IF \E k \in 1..Len(db) : db[k] = IdentityKey(ps, local)
    THEN CHOOSE k \in 1..Len(db) : db[k] = IdentityKey(ps, local)
    ELSE Len(db) + 1

AssignedDb(db, ps, local) ==
    IF \E k \in 1..Len(db) : db[k] = IdentityKey(ps, local)
    THEN db
    ELSE Append(db, IdentityKey(ps, local))

\* Register as it would be if the assignment replaced the ids of the type
Register_Replace(ids, stem_type, id) == [ids EXCEPT ![stem_type] = <<id>>]

\* ids_by_type[stem_type][stable_target_id] = None on an OrderedDict
Register(ids, stem_type, id) ==
    [ids EXCEPT ![stem_type] = IF id \in Range(@) THEN @ ELSE Append(@, id)]

(***************************************************************************)
(* BuilderProvider.extracted_item, one invocation: the records it can     *)
(* assemble, each with pydantic's verdict.                                *)
(***************************************************************************)
\* Validates as it would be if the ValidationError were swallowed
Validates_Always(stem_type, o) == o.err = "none"

\* try: model_class.model_validate(raw_data) / except ValidationError
Validates(stem_type, o) ==
    o.err = "none" /\ ModelValidate(ModelFields(stem_type), o.values)

extracted_item(stem_types_, ids) ==
    {[stemType |-> stem_type,
      hadPrimarySource |-> had_primary_source,
      identifierInPrimarySource |->
          FString(stem_type, PyInt(Len(ids.map[stem_type]))),
      err |-> o.err,
      values |-> o.values,
      valid |-> Validates(stem_type, o)] :
     <<stem_type, had_primary_source, o>> \in
        UNION {UNION {{<<st, ps, oo>> : oo \in PopulateFields(ModelFields(st), ids)} :
                      ps \in Range(ids.map["PrimarySource"])} :
               st \in Range(stem_types_)}}

\* the validated model of an assembled record
ExtractedModel(raw_data, db) ==
    [stemType |-> raw_data.stemType,
     hadPrimarySource |-> raw_data.hadPrimarySource,
     identifierInPrimarySource |-> raw_data.identifierInPrimarySource,
     values |-> raw_data.values,
     stableTargetId |-> AssignedId(db, raw_data.hadPrimarySource,
                                   raw_data.identifierInPrimarySource),
     validated |-> TRUE]

(***************************************************************************)
(* BuilderProvider.additive_rule: the additive fields populated and       *)
(* validated; a ValidationError of the rule class leaves additive_rule.   *)
(***************************************************************************)
additive_rule(stem_type, ids) ==
    {IF o.err = "none" /\ ~ModelValidate(AdditiveFields(stem_type), o.values)
     THEN [err |-> "ValidationError", values |-> <<>>]
     ELSE o :
     o \in PopulateFields(AdditiveFields(stem_type), ids)}

(***************************************************************************)
(* BuilderProvider.standalone_rule_set, one invocation.                   *)
(***************************************************************************)
standalone_rule_set(stem_types_, identifier_seed, ids) ==
    {[stemType |-> stem_type,
      seed |-> FString("artificial-rule-set-", identifier_seed),
      rules |-> {"additive"},
      err |-> a.err,
      additive |-> a.values] :
     <<stem_type, a>> \in
        UNION {{<<st, aa>> : aa \in additive_rule(st, ids)} :
               st \in Range(stem_types_)}}

(***************************************************************************)
(* BuilderProvider.rule_set_for_item, one invocation: a random sample of  *)
(* the three rule kinds is populated (random_sample draws its length      *)
(* from 1..len(elements) when none is given).                             *)
(***************************************************************************)
RuleNames == {"additive", "preventive", "subtractive"}

SampleLengths(elements) == 1..Cardinality(elements)

rule_set_for_item(extracted_item_, ids) ==
    {[stemType |-> extracted_item_.stemType,
      seed |-> FString("", PyInt(0)),
      rules |-> sample,
      err |-> a.err,
      additive |-> a.values] :
     <<sample, a>> \in
        UNION {IF "additive" \in rs
               THEN {<<rs, aa>> : aa \in additive_rule(extracted_item_.stemType, ids)}
               ELSE {<<rs, [err |-> "none", values |-> <<>>]>>} :
               rs \in {x \in SUBSET RuleNames :
                          Cardinality(x) \in SampleLengths(RuleNames)}}}

\* the validated rule-set response of an assembled record
RuleSetModel(raw_data, stable_target_id) ==
    [stemType |-> raw_data.stemType, stableTargetId |-> stable_target_id,
     seed |-> raw_data.seed, rules |-> raw_data.rules,
     additive |-> raw_data.additive, validated |-> TRUE]

(***************************************************************************)
(* BuilderProvider.subtractive_rule and preventive_rule.  A rule is the    *)
(* dict handed to model_validate: for every field of the rule class,       *)
(* whether the dict has the key, and its value.                            *)
(***************************************************************************)
\* LITERAL_FIELDS_BY_CLASS_NAME[class_name]
LiteralFields == {"entityType"}

\* names of subtractive_class.model_fields / preventive_class.model_fields
RuleClassFields(stem_type) ==
    <<"entityType">> \o [i \in 1..Len(ModelFields(stem_type)) |->
                            ModelFields(stem_type)[i].name]

\* the field of the rule class with this name
RuleField(stem_type, name) ==
    CHOOSE f \in Range(AdditiveFields(stem_type)) : f.name = name

\* ensure_list(getattr(extracted_item, name))
ExtractedValues(stem_type, extracted_item_, name) ==
    LET i == CHOOSE k \in 1..Len(ModelFields(stem_type)) :
                 ModelFields(stem_type)[k].name = name
    IN  extracted_item_.values[i]

NoEntry == [present |-> FALSE, values |-> <<>>]

\* random_sample(elements, length): `length` different elements
random_sample(elements, length) ==
    {l \in [1..length -> Range(elements)] : NoDuplicates(l)}

\* the lengths as they would be if pyint started from 0
SubtractiveLengths_FromZero(extracted_values, max_items) ==
    0..(IF Len(extracted_values) < max_items
        THEN Len(extracted_values) ELSE max_items)

\* the lengths pyint(1, min(len(extracted_values), max_items)) can return
SubtractiveLengths(extracted_values, max_items) ==
    1..(IF Len(extracted_values) < max_items
        THEN Len(extracted_values) ELSE max_items)

\* the entries subtractive_rule can make for one field of the rule class
SubtractiveEntries(stem_type, extracted_item_, name) ==
    IF name \in LiteralFields
    THEN {NoEntry}
    ELSE LET extracted_values == ExtractedValues(stem_type, extracted_item_, name)
         IN  {NoEntry} \cup
             (IF extracted_values = <<>> THEN {}
              ELSE {[present |-> TRUE, values |-> l] :
                      l \in UNION {random_sample(extracted_values, length) :
                                     length \in UNION
                                        {SubtractiveLengths(extracted_values, mm[2]) :
                                           mm \in min_max_for_field(
                                                     RuleField(stem_type, name))}}})

subtractive_rule(stem_type, extracted_item_) ==
    {r \in [1..Len(RuleClassFields(stem_type)) ->
               UNION {SubtractiveEntries(stem_type, extracted_item_,
                                         RuleClassFields(stem_type)[i]) :
                         i \in 1..Len(RuleClassFields(stem_type))}] :
        \A i \in 1..Len(RuleClassFields(stem_type)) :
           r[i] \in SubtractiveEntries(stem_type, extracted_item_,
                                       RuleClassFields(stem_type)[i])}

\* weighted_options as it would be if the entity's own id were offered
weighted_options_OwnId(extracted_item_) == {<<>>, <<extracted_item_.stableTargetId>>}

\* the keys of weighted_options
weighted_options(extracted_item_) == {<<>>, <<extracted_item_.hadPrimarySource>>}

preventive_rule(stem_type, extracted_item_) ==
    {r \in [1..Len(RuleClassFields(stem_type)) ->
               {NoEntry} \cup {[present |-> TRUE, values |-> o] :
                                 o \in weighted_options(extracted_item_)}] :
        \A i \in 1..Len(RuleClassFields(stem_type)) :
           r[i].present <=> RuleClassFields(stem_type)[i] \notin LiteralFields}

(***************************************************************************)
(* The random source.  faker.generator.random is one random.Random for    *)
(* the process: Faker.seed(seed) seeds it, and every Faker instance draws  *)
(* from it.  Its stream of words is a fixed function of the seed and of    *)
(* the number of words drawn.                                              *)
(***************************************************************************)
\* random.seed(seed)
Seeded(seed) == [seed |-> seed, n |-> 0]

\* the next word of the stream (three bits wide)
RandomWord(r) == (r.seed + 3 * r.n) % 8

\* n.bit_length(), for 1 <= n < 8
bit_length(n) == IF n < 2 THEN 1 ELSE IF n < 4 THEN 2 ELSE 3

\* Random.getrandbits(k): the value drawn
getrandbits(k, r) == RandomWord(r) % (2 ^ k)

\* Random._randbelow(n): draw k-bit values until one is below n
RECURSIVE randbelow(_, _)
randbelow(n, r) ==
    LET drawn == getrandbits(bit_length(n), r)
        next == [r EXCEPT !.n = @ + 1]
    IN  IF drawn < n
        THEN [value |-> drawn, random |-> next]
        ELSE randbelow(n, next)

\* pyint(min_value, max_value): randrange(min_value, max_value + 1)
pyint(min_value, max_value, r) ==
    LET below == randbelow(max_value - min_value + 1, r)
    IN  [value |-> min_value + below.value, random |-> below.random]

\* random_element(elements): one element, by one draw
random_element(elements, r) ==
    LET below == randbelow(Len(elements), r)
    IN  [value |-> elements[below.value + 1], random |-> below.random]

\* the precision levels of a TemporalEntity type
ALLOWED_PRECISION_LEVELS == <<"year", "day">>

\* TemporalEntityProvider.temporal_entity at the time `now` (in the units of
\* the model, with int(8e8) as 0): a timestamp between int(8e8) and now,
\* formatted with a random precision
temporal_entity(allowed_precision_levels, r, now) ==
    LET timestamp == pyint(0, now, r)
        precision == random_element(allowed_precision_levels, timestamp.random)
    IN  [value |-> [timestamp |-> timestamp.value, precision |-> precision.value],
         random |-> precision.random]

(***************************************************************************)
(* A provider method called on its own, as the tests of the providers do. *)
(***************************************************************************)
NoField == Field("", {}, FALSE, FALSE, 0, 0)

NoRegex == [classes |-> <<>>, anchored |-> FALSE]

Call(fn, field, extracted_item_, now) ==
    [fn |-> fn, field |-> field, extracted_item |-> extracted_item_, now |-> now]

NoCall == Call("none", NoField, NoItem, 0)

NoResult ==
    [returned |-> FALSE, turns |-> 0, value |-> None, regex_pattern |-> NoRegex]

(***************************************************************************)
(* The generators of helpers.py.                                          *)
(***************************************************************************)
\* MayRetry as it would be with the guard off by one, either way
MayRetry_OffByOne(attempts_left_) == attempts_left_ > 1

MayRetry_Inclusive(attempts_left_) == attempts_left_ >= 0

\* if _attempts_left > 0
MayRetry(attempts_left_) == attempts_left_ > 0

\* NextAttemptsLeft as it would be if the recursive call passed the budget on
\* unchanged
NextAttemptsLeft_NoDecrement(attempts_left_) == attempts_left_

\* NextAttemptsLeft as it would be if a retry took two units of the budget
NextAttemptsLeft_TwoUnits(attempts_left_) == attempts_left_ - 2

\* _attempts_left=_attempts_left - 1
NextAttemptsLeft(attempts_left_) == attempts_left_ - 1

\* one more record validated (counted up to AttemptsCap)
CountAttempt(n) == IF n < AttemptsCap THEN n + 1 ELSE n

InFlight == {"extracted_item", "standalone_rule_set", "rule_set_for_item"}

Raised == {"extracted_item_raised", "standalone_rule_set_raised",
           "rule_set_for_item_raised"}

Init ==
    /\ generator \in {"generate_artificial_extracted_items",
                      "generate_artificial_items_and_rule_sets"}
    /\ pc = "start"
    /\ index = 0
    /\ action = 0
    /\ ids_by_type = [EmptyRegistry EXCEPT
                         !["PrimarySource"] = <<MEX_PRIMARY_SOURCE.stableTargetId>>]
    /\ identities = <<>>
    /\ attempts_left = AttemptsLeftDefault
    /\ attempts = 0
    /\ item = NoItem
    /\ rule_set = NoRuleSet
    /\ yielded = ExtractedItemAndRuleSet(NoItem, NoRuleSet)
    /\ n_yielded = 0
    /\ error = "none"
    /\ provider_call = NoCall
    /\ result = NoResult
    /\ random = Seeded(0)
    /\ sessions = <<>>

\* yield MEX_PRIMARY_SOURCE / yield ExtractedItemAndRuleSet(extracted_item=...)
YieldMexPrimarySource ==
    /\ pc = "start"
    /\ UNCHANGED <<provider_call, result, random, sessions>>
    /\ yielded' = ExtractedItemAndRuleSet(MEX_PRIMARY_SOURCE, NoRuleSet)
    /\ n_yielded' = n_yielded + 1
    /\ pc' = "loop"
    /\ UNCHANGED <<generator, index, action, ids_by_type, identities,
                   attempts_left, attempts, item, rule_set, error>>

\* while True: item = faker.extracted_item(stem_types, ids_by_type)
LoopExtractedItems ==
    /\ generator = "generate_artificial_extracted_items"
    /\ UNCHANGED <<provider_call, result, random, sessions>>
    /\ pc = "loop"
    /\ n_yielded <= MaxSteps
    /\ pc' = "extracted_item"
    /\ action' = 0
    /\ attempts_left' = AttemptsLeftDefault
    /\ attempts' = 0
    /\ item' = NoItem
    /\ rule_set' = NoRuleSet
    /\ UNCHANGED <<generator, index, ids_by_type, identities, yielded, n_yielded,
                   error>>

\* for index in count(): match faker.random_int(0, 2)
DrawAction ==
    /\ generator = "generate_artificial_items_and_rule_sets"
    /\ UNCHANGED <<provider_call, result, random, sessions>>
    /\ pc = "loop"
    /\ index < MaxSteps
    /\ \E a \in 0..2 :
          /\ action' = a
          /\ pc' = IF a = 1 THEN "standalone_rule_set" ELSE "extracted_item"
    /\ attempts_left' = AttemptsLeftDefault
    /\ attempts' = 0
    /\ item' = NoItem
    /\ rule_set' = NoRuleSet
    /\ UNCHANGED <<generator, index, ids_by_type, identities, yielded, n_yielded,
                   error>>

\* the call of the generators: faker.extracted_item(stem_types, ids_by_type)
ExtractedItemCall == extracted_item(stem_types, PyMap(ids_by_type))

\* case 0 and the loop of generate_artificial_extracted_items: extracted_item
\* returns a validated model; ids_by_type[item.stemType][item.stableTargetId]
\* = None; yield
Case0Yield ==
    /\ pc = "extracted_item"
    /\ UNCHANGED <<provider_call, result, random, sessions>>
    /\ action = 0
    /\ \E raw_data \in ExtractedItemCall :
          /\ raw_data.valid
          /\ LET model == ExtractedModel(raw_data, identities)
             IN  /\ item' = model
                 /\ ids_by_type' = Register(ids_by_type, model.stemType,
                                            model.stableTargetId)
                 /\ yielded' = ExtractedItemAndRuleSet(model, NoRuleSet)
          /\ identities' = AssignedDb(identities, raw_data.hadPrimarySource,
                                      raw_data.identifierInPrimarySource)
    /\ attempts' = CountAttempt(attempts)
    /\ n_yielded' = n_yielded + 1
    /\ index' = IF generator = "generate_artificial_items_and_rule_sets"
                THEN index + 1 ELSE index
    /\ pc' = "loop"
    /\ UNCHANGED <<generator, action, attempts_left, rule_set, error>>

\* Case2ExtractedItem as it would be if extracted_item itself added the id
\* of the model it returns to ids_by_type
Case2ExtractedItem_Registers ==
    /\ pc = "extracted_item"
    /\ UNCHANGED <<provider_call, result, random, sessions>>
    /\ action = 2
    /\ \E raw_data \in ExtractedItemCall :
          /\ raw_data.valid
          /\ item' = ExtractedModel(raw_data, identities)
          /\ identities' = AssignedDb(identities, raw_data.hadPrimarySource,
                                      raw_data.identifierInPrimarySource)
          /\ ids_by_type' = Register(ids_by_type, raw_data.stemType,
                                     item'.stableTargetId)
    /\ pc' = "rule_set_for_item"
    /\ attempts_left' = AttemptsLeftDefault
    /\ attempts' = 0
    /\ UNCHANGED <<generator, index, action, rule_set, yielded, n_yielded, error>>

\* case 2: item = faker.extracted_item(stem_types, ids_by_type) returns a
\* validated model, then faker.rule_set_for_item(item, ids_by_type) is called
Case2ExtractedItem ==
    /\ pc = "extracted_item"
    /\ UNCHANGED <<provider_call, result, random, sessions>>
    /\ action = 2
    /\ \E raw_data \in ExtractedItemCall :
          /\ raw_data.valid
          /\ item' = ExtractedModel(raw_data, identities)
          /\ identities' = AssignedDb(identities, raw_data.hadPrimarySource,
                                      raw_data.identifierInPrimarySource)
    /\ pc' = "rule_set_for_item"
    /\ attempts_left' = AttemptsLeftDefault
    /\ attempts' = 0
    /\ UNCHANGED <<generator, index, action, ids_by_type, rule_set, yielded,
                   n_yielded, error>>

\* except ValidationError: if _attempts_left > 0: return self.extracted_item(...)
ExtractedItemRetry ==
    /\ pc = "extracted_item"
    /\ UNCHANGED <<provider_call, result, random, sessions>>
    /\ \E raw_data \in ExtractedItemCall :
          raw_data.err = "none" /\ ~raw_data.valid
    /\ MayRetry(attempts_left)
    /\ attempts_left' = NextAttemptsLeft(attempts_left)
    /\ attempts' = CountAttempt(attempts)
    /\ UNCHANGED <<generator, pc, index, action, ids_by_type, identities, item,
                   rule_set, yielded, n_yielded, error>>

\* except ValidationError: ... raise
ExtractedItemRaise ==
    /\ pc = "extracted_item"
    /\ UNCHANGED <<provider_call, result, random, sessions>>
    /\ \E raw_data \in ExtractedItemCall :
          raw_data.err = "none" /\ ~raw_data.valid
    /\ ~MayRetry(attempts_left)
    /\ attempts' = CountAttempt(attempts)
    /\ pc' = "extracted_item_raised"
    /\ error' = "ValidationError"
    /\ UNCHANGED <<generator, index, action, ids_by_type, identities,
                   attempts_left, item, rule_set, yielded, n_yielded>>

\* an exception of field_value leaves extracted_item: it is raised before
\* the try block
ExtractedItemFieldError ==
    /\ pc = "extracted_item"
    /\ UNCHANGED <<provider_call, result, random, sessions>>
    /\ \E raw_data \in ExtractedItemCall :
          /\ raw_data.err # "none"
          /\ error' = raw_data.err
    /\ pc' = "extracted_item_raised"
    /\ UNCHANGED <<generator, index, action, ids_by_type, identities,
                   attempts_left, attempts, item, rule_set, yielded, n_yielded>>

\* case 1: faker.standalone_rule_set(stem_types, ids_by_type, index), whose
\* parameters are (stem_types, identifier_seed, ids_by_type)
StandaloneRuleSetCall ==
    standalone_rule_set(stem_types, PyMap(ids_by_type), PyInt(index))

\* get_provider().assign(MEX_PRIMARY_SOURCE_STABLE_TARGET_ID, seed), made by
\* every invocation of standalone_rule_set before the rule is populated
StandaloneIdentities(raw_data) ==
    AssignedDb(identities, MEX_PRIMARY_SOURCE_STABLE_TARGET_ID, raw_data.seed)

\* case 1: the response class accepts the record, standalone_rule_set
\* returns it; ids_by_type[rule_set.stemType][rule_set.stableTargetId] = None;
\* yield
Case1Yield ==
    /\ pc = "standalone_rule_set"
    /\ UNCHANGED <<provider_call, result, random, sessions>>
    /\ \E raw_data \in StandaloneRuleSetCall :
          /\ raw_data.err = "none"
          /\ LET model == RuleSetModel(raw_data,
                    AssignedId(identities, MEX_PRIMARY_SOURCE_STABLE_TARGET_ID,
                               raw_data.seed))
             IN  /\ rule_set' = model
                 /\ ids_by_type' = Register(ids_by_type, model.stemType,
                                            model.stableTargetId)
                 /\ yielded' = ExtractedItemAndRuleSet(NoItem, model)
          /\ identities' = StandaloneIdentities(raw_data)
    /\ attempts' = CountAttempt(attempts)
    /\ n_yielded' = n_yielded + 1
    /\ index' = index + 1
    /\ pc' = "loop"
    /\ UNCHANGED <<generator, action, attempts_left, item, error>>

\* the response class rejects the record: retried while _attempts_left > 0
StandaloneRuleSetRetry ==
    /\ pc = "standalone_rule_set"
    /\ UNCHANGED <<provider_call, result, random, sessions>>
    /\ \E raw_data \in StandaloneRuleSetCall :
          /\ raw_data.err = "none"
          /\ identities' = StandaloneIdentities(raw_data)
    /\ MayRetry(attempts_left)
    /\ attempts_left' = NextAttemptsLeft(attempts_left)
    /\ attempts' = CountAttempt(attempts)
    /\ UNCHANGED <<generator, pc, index, action, ids_by_type, item, rule_set,
                   yielded, n_yielded, error>>

\* the response class rejects the record and no attempt is left: raise
StandaloneRuleSetRaise ==
    /\ pc = "standalone_rule_set"
    /\ UNCHANGED <<provider_call, result, random, sessions>>
    /\ \E raw_data \in StandaloneRuleSetCall :
          /\ raw_data.err = "none"
          /\ identities' = StandaloneIdentities(raw_data)
    /\ ~MayRetry(attempts_left)
    /\ attempts' = CountAttempt(attempts)
    /\ pc' = "standalone_rule_set_raised"
    /\ error' = "ValidationError"
    /\ UNCHANGED <<generator, index, action, ids_by_type, attempts_left, item,
                   rule_set, yielded, n_yielded>>

\* an exception of additive_rule leaves standalone_rule_set: it is raised
\* before the try block, after the identity was assigned
StandaloneRuleSetError ==
    /\ pc = "standalone_rule_set"
    /\ UNCHANGED <<provider_call, result, random, sessions>>
    /\ \E raw_data \in StandaloneRuleSetCall :
          /\ raw_data.err # "none"
          /\ error' = raw_data.err
          /\ identities' = StandaloneIdentities(raw_data)
    /\ pc' = "standalone_rule_set_raised"
    /\ UNCHANGED <<generator, index, action, ids_by_type, attempts_left,
                   attempts, item, rule_set, yielded, n_yielded>>

\* the call of case 2: faker.rule_set_for_item(item, ids_by_type)
RuleSetForItemCall == rule_set_for_item(item, PyMap(ids_by_type))

\* case 2: the response class accepts the record, rule_set_for_item returns
\* it; yield ExtractedItemAndRuleSet(extracted_item=item, rule_set=rule_set)
Case2Yield ==
    /\ pc = "rule_set_for_item"
    /\ UNCHANGED <<provider_call, result, random, sessions>>
    /\ \E raw_data \in RuleSetForItemCall :
          /\ raw_data.err = "none"
          /\ LET model == RuleSetModel(raw_data, item.stableTargetId)
             IN  /\ rule_set' = model
                 /\ yielded' = ExtractedItemAndRuleSet(item, model)
    /\ attempts' = CountAttempt(attempts)
    /\ n_yielded' = n_yielded + 1
    /\ index' = index + 1
    /\ pc' = "loop"
    /\ UNCHANGED <<generator, action, ids_by_type, identities, attempts_left,
                   item, error>>

RuleSetForItemRetry ==
    /\ pc = "rule_set_for_item"
    /\ UNCHANGED <<provider_call, result, random, sessions>>
    /\ \E raw_data \in RuleSetForItemCall : raw_data.err = "none"
    /\ MayRetry(attempts_left)
    /\ attempts_left' = NextAttemptsLeft(attempts_left)
    /\ attempts' = CountAttempt(attempts)
    /\ UNCHANGED <<generator, pc, index, action, ids_by_type, identities, item,
                   rule_set, yielded, n_yielded, error>>

RuleSetForItemRaise ==
    /\ pc = "rule_set_for_item"
    /\ UNCHANGED <<provider_call, result, random, sessions>>
    /\ \E raw_data \in RuleSetForItemCall : raw_data.err = "none"
    /\ ~MayRetry(attempts_left)
    /\ attempts' = CountAttempt(attempts)
    /\ pc' = "rule_set_for_item_raised"
    /\ error' = "ValidationError"
    /\ UNCHANGED <<generator, index, action, ids_by_type, identities,
                   attempts_left, item, rule_set, yielded, n_yielded>>

\* an exception of a rule factory leaves rule_set_for_item: the factories
\* are called before the try block
RuleSetForItemError ==
    /\ pc = "rule_set_for_item"
    /\ UNCHANGED <<provider_call, result, random, sessions>>
    /\ \E raw_data \in RuleSetForItemCall :
          /\ raw_data.err # "none"
          /\ error' = raw_data.err
    /\ pc' = "rule_set_for_item_raised"
    /\ UNCHANGED <<generator, index, action, ids_by_type, identities,
                   attempts_left, attempts, item, rule_set, yielded, n_yielded>>

Next ==
    \/ YieldMexPrimarySource
    \/ LoopExtractedItems
    \/ DrawAction
    \/ Case0Yield
    \/ Case2ExtractedItem
    \/ ExtractedItemRetry
    \/ ExtractedItemRaise
    \/ ExtractedItemFieldError
    \/ Case1Yield
    \/ StandaloneRuleSetRetry
    \/ StandaloneRuleSetRaise
    \/ StandaloneRuleSetError
    \/ Case2Yield
    \/ RuleSetForItemRetry
    \/ RuleSetForItemRaise
    \/ RuleSetForItemError

Spec == Init /\ [][Next]_vars

\* a provider call, once entered, runs on until it returns or raises: the
\* generators call the providers synchronously
ProviderStep ==
    \/ Case0Yield
    \/ Case2ExtractedItem
    \/ ExtractedItemRetry
    \/ ExtractedItemRaise
    \/ ExtractedItemFieldError
    \/ Case1Yield
    \/ StandaloneRuleSetRetry
    \/ StandaloneRuleSetRaise
    \/ StandaloneRuleSetError
    \/ Case2Yield
    \/ RuleSetForItemRetry
    \/ RuleSetForItemRaise
    \/ RuleSetForItemError

\* the generators pulled for at most LiveSteps iterations
LiveNext ==
    /\ pc = "loop" => index < LiveSteps /\ n_yielded <= LiveSteps
    /\ Next

LiveSpec == Init /\ [][LiveNext]_vars /\ WF_vars(ProviderStep)

(***************************************************************************)
(* The provider methods called on their own: the arguments are drawn in    *)
(* the initial state, an action applies the method.                        *)
(***************************************************************************)
\* no generator is running
GeneratorIdle ==
    /\ generator = "none"
    /\ pc = "idle"
    /\ index = 0
    /\ action = 0
    /\ ids_by_type = EmptyRegistry
    /\ identities = <<>>
    /\ attempts_left = AttemptsLeftDefault
    /\ attempts = 0
    /\ item = NoItem
    /\ rule_set = NoRuleSet
    /\ yielded = ExtractedItemAndRuleSet(NoItem, NoRuleSet)
    /\ n_yielded = 0
    /\ error = "none"

\* a registry as the generators build it: the root primary source, two
\* organizations and a person
SampleRegistry ==
    [EmptyRegistry EXCEPT !["PrimarySource"] = <<MEX_PRIMARY_SOURCE.stableTargetId>>,
                          !["Organization"] = <<1, 3>>,
                          !["Person"] = <<2>>]

\* the entities extracted_item can return for that registry
SampleItems ==
    {ExtractedModel(raw_data, <<>>) :
        raw_data \in {r \in extracted_item(<<"Organization", "Person", "Activity",
                                             "Variable">>, PyMap(SampleRegistry)) :
                         r.valid}}

\* the fields of the sample schema
SampleFields ==
    UNION {Range(ModelFields(t)) \cup Range(AdditiveFields(t)) :
              t \in AllStemTypes \cup {"Resource"}}

\* the times at which temporal_entity is called
Clock == {5, 6}

Seeds == 0..7

ProviderCalls ==
    {Call("min_max_for_field", f, NoItem, 0) : f \in SampleFields}
    \cup {Call("field_value", f, NoItem, 0) : f \in SampleFields}
    \cup {Call("numerify_patterns", f, NoItem, 0) :
             f \in {x \in SampleFields :
                       \E info \in get_random_field_info(x) :
                          info.regex_patterns # <<>> /\ info.numerify_patterns # <<>>}}
    \cup {Call("subtractive_rule", NoField, e, 0) : e \in SampleItems}
    \cup {Call("preventive_rule", NoField, e, 0) : e \in SampleItems}
    \cup {Call("temporal_entity", NoField, NoItem, now) : now \in Clock}

ProviderInit ==
    /\ GeneratorIdle
    /\ provider_call \in ProviderCalls
    /\ result = NoResult
    /\ random \in {Seeded(seed) :
                     seed \in IF provider_call.fn = "temporal_entity"
                              THEN Seeds ELSE {0}}
    /\ sessions = <<>>

Return(value) ==
    [returned |-> TRUE, turns |-> 0, value |-> value, regex_pattern |-> NoRegex]

MinMaxForField ==
    /\ provider_call.fn = "min_max_for_field"
    /\ ~result.returned
    /\ \E mm \in min_max_for_field(provider_call.field) : result' = Return(mm)
    /\ UNCHANGED <<generator_vars, provider_call, random, sessions>>

FieldValue ==
    /\ provider_call.fn = "field_value"
    /\ ~result.returned
    /\ \E o \in field_value(provider_call.field, PyMap(SampleRegistry)) :
          result' = Return(o)
    /\ UNCHANGED <<generator_vars, provider_call, random, sessions>>

\* one turn of for _ in range(10): a match returns, a miss goes on
NumerifyPatternsTurn ==
    /\ provider_call.fn = "numerify_patterns"
    /\ ~result.returned
    /\ result.turns < NumerifyRange
    /\ \E field_info \in get_random_field_info(provider_call.field) :
       \E d \in NumerifyDraws(field_info.numerify_patterns,
                              field_info.regex_patterns) :
          result' = IF re_match(d.regex_pattern, d.numerified)
                    THEN [returned |-> TRUE, turns |-> result.turns + 1,
                          value |-> EncodeStr(d.numerified),
                          regex_pattern |-> d.regex_pattern]
                    ELSE [returned |-> FALSE, turns |-> result.turns + 1,
                          value |-> None, regex_pattern |-> d.regex_pattern]
    /\ UNCHANGED <<generator_vars, provider_call, random, sessions>>

\* the loop ran out: return None
NumerifyPatternsBailOut ==
    /\ provider_call.fn = "numerify_patterns"
    /\ ~result.returned
    /\ result.turns >= NumerifyRange
    /\ result' = [result EXCEPT !.returned = TRUE, !.value = None]
    /\ UNCHANGED <<generator_vars, provider_call, random, sessions>>

SubtractiveRule ==
    /\ provider_call.fn = "subtractive_rule"
    /\ ~result.returned
    /\ \E rule \in subtractive_rule(provider_call.extracted_item.stemType,
                                    provider_call.extracted_item) :
          result' = Return(rule)
    /\ UNCHANGED <<generator_vars, provider_call, random, sessions>>

PreventiveRule ==
    /\ provider_call.fn = "preventive_rule"
    /\ ~result.returned
    /\ \E rule \in preventive_rule(provider_call.extracted_item.stemType,
                                   provider_call.extracted_item) :
          result' = Return(rule)
    /\ UNCHANGED <<generator_vars, provider_call, random, sessions>>

TemporalEntity ==
    /\ provider_call.fn = "temporal_entity"
    /\ ~result.returned
    /\ LET returned == temporal_entity(ALLOWED_PRECISION_LEVELS, random,
                                       provider_call.now)
       IN  /\ result' = Return(returned.value)
           /\ random' = returned.random
    /\ UNCHANGED <<generator_vars, provider_call, sessions>>

ProviderNext ==
    \/ MinMaxForField
    \/ FieldValue
    \/ NumerifyPatternsTurn
    \/ NumerifyPatternsBailOut
    \/ SubtractiveRule
    \/ PreventiveRule
    \/ TemporalEntity

ProviderSpec == ProviderInit /\ [][ProviderNext]_vars

(***************************************************************************)
(* Two generators of one process, pulled in any order.  What a generator  *)
(* yields is followed as far as the action and the stem type drawn for    *)
(* it; the draws that populate the fields come from the same source.      *)
(***************************************************************************)
SessionIds == {1, 2}

SessionSeeds == {0, 1, 3}

Root == [root |-> TRUE, action |-> 0, stem_type |-> "PrimarySource"]

\* one iteration of the loop of generate_artificial_items_and_rule_sets:
\* faker.random_int(0, 2), then self.random_element(stem_types)
Iteration(r) ==
    LET drawn_action == pyint(0, 2, r)
        stem_type == random_element(stem_types, drawn_action.random)
    IN  [value |-> [root |-> FALSE, action |-> drawn_action.value,
                    stem_type |-> stem_type.value],
         random |-> stem_type.random]

\* what a generator yields when it is the only one pulled, `pulls` times
RECURSIVE PulledAlone(_, _, _)
PulledAlone(output, r, pulls) ==
    IF pulls = 0 THEN output
    ELSE PulledAlone(Append(output, Iteration(r).value), Iteration(r).random,
                     pulls - 1)

SessionsInit ==
    /\ GeneratorIdle
    /\ provider_call = NoCall
    /\ result = NoResult
    /\ random = Seeded(0)
    /\ sessions \in [SessionIds ->
                       {[seed |-> seed, started |-> FALSE, output |-> <<>>] :
                           seed \in SessionSeeds}]

\* the first next(): create_faker runs Faker.seed(seed), the root is yielded
StartSession(s) ==
    /\ ~sessions[s].started
    /\ random' = Seeded(sessions[s].seed)
    /\ sessions' = [sessions EXCEPT ![s].started = TRUE, ![s].output = <<Root>>]
    /\ UNCHANGED <<generator_vars, provider_call, result>>

\* a later next(): one iteration, drawing from faker.generator.random
PullSession(s) ==
    /\ sessions[s].started
    /\ Len(sessions[s].output) <= MaxPulls
    /\ sessions' = [sessions EXCEPT
                       ![s].output = Append(@, Iteration(random).value)]
    /\ random' = Iteration(random).random
    /\ UNCHANGED <<generator_vars, provider_call, result>>

SessionsNext ==
    \/ \E s \in SessionIds : StartSession(s)
    \/ \E s \in SessionIds : PullSession(s)

SessionsSpec == SessionsInit /\ [][SessionsNext]_vars

(***************************************************************************)
(* One generator of (entity, rule-set) pairs, pulled a whole iteration at  *)
(* a time: what next() returns or raises once the provider calls and       *)
(* their retries are over.  sessions[1].output is the stream yielded so   *)
(* far.  The allow-list holds a stem type with a reference to its own     *)
(* type.                                                                   *)
(***************************************************************************)
StreamStemTypes == <<"OrganizationalUnit", "Organization">>

\* the records faker.extracted_item(stem_types, ids_by_type) can return
PulledItems ==
    {raw_data \in extracted_item(StreamStemTypes, PyMap(ids_by_type)) :
        raw_data.valid}

\* the records faker.standalone_rule_set(stem_types, ids_by_type, index)
\* can return
PulledStandaloneRuleSets ==
    {raw_data \in standalone_rule_set(StreamStemTypes, PyMap(ids_by_type),
                                      PyInt(index)) :
        raw_data.err = "none"}

\* a provider call of an iteration raises: the exception, where it was
\* raised, and what the call did to the identities and to `item` before
RaisedBy(pc_, error_, identities_, item_) ==
    [pc |-> pc_, error |-> error_, identities |-> identities_, item |-> item_]

\* the ways faker.extracted_item can raise: a ValidationError after the
\* last retry, or the exception of a field
ExtractedItemRaises ==
    {RaisedBy("extracted_item_raised",
              IF raw_data.err = "none" THEN "ValidationError" ELSE raw_data.err,
              identities, NoItem) :
        raw_data \in {r \in extracted_item(StreamStemTypes, PyMap(ids_by_type)) :
                         ~r.valid}}

\* the ways faker.standalone_rule_set can raise
StandaloneRuleSetRaises ==
    {RaisedBy("standalone_rule_set_raised",
              IF raw_data.err = "none" THEN "ValidationError" ELSE raw_data.err,
              StandaloneIdentities(raw_data), NoItem) :
        raw_data \in standalone_rule_set(StreamStemTypes, PyMap(ids_by_type),
                                         PyInt(index))}

\* the ways faker.rule_set_for_item can raise, for the entity of case 2
RuleSetForItemRaises ==
    UNION {LET model == ExtractedModel(raw_data, identities)
           IN  {RaisedBy("rule_set_for_item_raised",
                         IF rule_set_data.err = "none" THEN "ValidationError"
                         ELSE rule_set_data.err,
                         AssignedDb(identities, raw_data.hadPrimarySource,
                                    raw_data.identifierInPrimarySource),
                         model) :
                   rule_set_data \in rule_set_for_item(model, PyMap(ids_by_type))} :
           raw_data \in PulledItems}

Yield(pair) == [sessions EXCEPT ![1].output = Append(@, pair)]

StreamInit ==
    /\ generator = "generate_artificial_items_and_rule_sets"
    /\ pc = "start"
    /\ index = 0
    /\ action = 0
    /\ ids_by_type = [EmptyRegistry EXCEPT
                         !["PrimarySource"] = <<MEX_PRIMARY_SOURCE.stableTargetId>>]
    /\ identities = <<>>
    /\ attempts_left = AttemptsLeftDefault
    /\ attempts = 0
    /\ item = NoItem
    /\ rule_set = NoRuleSet
    /\ yielded = ExtractedItemAndRuleSet(NoItem, NoRuleSet)
    /\ n_yielded = 0
    /\ error = "none"
    /\ provider_call = NoCall
    /\ result = NoResult
    /\ random = Seeded(0)
    /\ sessions = <<[seed |-> 0, started |-> FALSE, output |-> <<>>]>>

\* the first next(): yield ExtractedItemAndRuleSet(extracted_item=MEX_PRIMARY_SOURCE)
PullRoot ==
    /\ pc = "start"
    /\ yielded' = ExtractedItemAndRuleSet(MEX_PRIMARY_SOURCE, NoRuleSet)
    /\ sessions' = [Yield(yielded') EXCEPT ![1].started = TRUE]
    /\ n_yielded' = n_yielded + 1
    /\ pc' = "loop"
    /\ UNCHANGED <<generator, index, action, ids_by_type, identities,
                   attempts_left, attempts, item, rule_set, error,
                   provider_call, result, random>>

\* a next() that draws 0: the entity is registered and yielded
PullCase0 ==
    /\ pc = "loop"
    /\ index < StreamPulls
    /\ action' = 0
    /\ \E raw_data \in PulledItems :
          LET model == ExtractedModel(raw_data, identities)
          IN  /\ item' = model
              /\ identities' = AssignedDb(identities, raw_data.hadPrimarySource,
                                          raw_data.identifierInPrimarySource)
              /\ ids_by_type' = Register(ids_by_type, model.stemType,
                                         model.stableTargetId)
              /\ yielded' = ExtractedItemAndRuleSet(model, NoRuleSet)
    /\ rule_set' = NoRuleSet
    /\ sessions' = Yield(yielded')
    /\ n_yielded' = n_yielded + 1
    /\ index' = index + 1
    /\ UNCHANGED <<generator, pc, attempts_left, attempts, error,
                   provider_call, result, random>>

\* a next() that draws 1: the rule-set's id is registered, the rule-set
\* yielded
PullCase1 ==
    /\ pc = "loop"
    /\ index < StreamPulls
    /\ action' = 1
    /\ \E raw_data \in PulledStandaloneRuleSets :
          LET model == RuleSetModel(raw_data,
                    AssignedId(identities, MEX_PRIMARY_SOURCE_STABLE_TARGET_ID,
                               raw_data.seed))
          IN  /\ rule_set' = model
              /\ identities' = StandaloneIdentities(raw_data)
              /\ ids_by_type' = Register(ids_by_type, model.stemType,
                                         model.stableTargetId)
              /\ yielded' = ExtractedItemAndRuleSet(NoItem, model)
    /\ item' = NoItem
    /\ sessions' = Yield(yielded')
    /\ n_yielded' = n_yielded + 1
    /\ index' = index + 1
    /\ UNCHANGED <<generator, pc, attempts_left, attempts, error,
                   provider_call, result, random>>

\* a next() that draws 2: the entity and a rule-set for it are yielded,
\* nothing is registered
PullCase2 ==
    /\ pc = "loop"
    /\ index < StreamPulls
    /\ action' = 2
    /\ \E raw_data \in PulledItems :
          LET model == ExtractedModel(raw_data, identities)
          IN  /\ item' = model
              /\ identities' = AssignedDb(identities, raw_data.hadPrimarySource,
                                          raw_data.identifierInPrimarySource)
              /\ \E rule_set_data \in rule_set_for_item(model, PyMap(ids_by_type)) :
                    /\ rule_set_data.err = "none"
                    /\ rule_set' = RuleSetModel(rule_set_data, model.stableTargetId)
              /\ yielded' = ExtractedItemAndRuleSet(model, rule_set')
    /\ sessions' = Yield(yielded')
    /\ n_yielded' = n_yielded + 1
    /\ index' = index + 1
    /\ UNCHANGED <<generator, pc, ids_by_type, attempts_left, attempts, error,
                   provider_call, result, random>>

\* a next() in which a provider call raises: nothing is registered or
\* yielded, the generator is over
PullRaises ==
    /\ pc = "loop"
    /\ index < StreamPulls
    /\ \E drawn \in 0..2 :
          /\ action' = drawn
          /\ \E raised \in
                  IF drawn = 0 THEN ExtractedItemRaises
                  ELSE IF drawn = 1 THEN StandaloneRuleSetRaises
                  ELSE ExtractedItemRaises \cup RuleSetForItemRaises :
                /\ pc' = raised.pc
                /\ error' = raised.error
                /\ identities' = raised.identities
                /\ item' = raised.item
    /\ rule_set' = NoRuleSet
    /\ UNCHANGED <<generator, index, ids_by_type, attempts_left, attempts,
                   yielded, n_yielded, provider_call, result, random, sessions>>

StreamNext ==
    \/ PullRoot
    \/ PullCase0
    \/ PullCase1
    \/ PullCase2
    \/ PullRaises

StreamSpec == StreamInit /\ [][StreamNext]_vars

(***************************************************************************)
(* Claims.                                                                 *)
(***************************************************************************)
Pairs == generator = "generate_artificial_items_and_rule_sets"

HasItem(pair) == pair.extracted_item.stemType # "None"

HasRuleSet(pair) == pair.rule_set.stemType # "None"

KnownIds(ids, targets) == UNION {Range(ids[targets[k]]) : k \in 1..Len(targets)}

\* every reference value of entity e is an id that ids holds for a stem type
\* the field's type refers to
ReferencesKnown(e, ids) ==
    /\ e.hadPrimarySource \in Range(ids["PrimarySource"])
    /\ \A i \in 1..Len(ModelFields(e.stemType)) :
          LET field == ModelFields(e.stemType)[i]
          IN  (\A arm \in field.arms : arm.kind = "Identifier") =>
                 \E arm \in field.arms :
                     Range(e.values[i]) \subseteq KnownIds(ids, arm.targets)

\* C1: no forward references: whenever an entity is synthesized, its
\* primary-source id and every value of its reference fields were in
\* ids_by_type, under the referenced stem type, before that step.
C1_NoForwardReferences ==
    [][(item' # item /\ item'.stemType # "None") =>
          ReferencesKnown(item', ids_by_type)]_vars

C1_Witness ==
    /\ yielded.extracted_item.stemType = "Activity"
    /\ Len(yielded.extracted_item.values[1]) >= 1

\* C2: every entity the generators have synthesized and yielded has its
\* stable target id in ids_by_type under its stem type, whichever case
\* synthesized it.
C2_YieldedEntityRegistered ==
    HasItem(yielded) =>
        yielded.extracted_item.stableTargetId
            \in Range(ids_by_type[yielded.extracted_item.stemType])

\* C3 as stated: every yielded entity, the root primary source included,
\* has passed validation.
C3_EveryYieldedEntityValidated ==
    HasItem(yielded) => yielded.extracted_item.validated

\* C3: every entity yielded after the root primary source has passed
\* validation and satisfies the schema of its stem type.
C3_SynthesizedEntityValidated ==
    (HasItem(yielded) /\ n_yielded > 1) =>
        /\ yielded.extracted_item.validated
        /\ ModelValidate(ModelFields(yielded.extracted_item.stemType),
                         yielded.extracted_item.values)

C3_Witness ==
    /\ n_yielded > 1
    /\ yielded.extracted_item.stemType = "Activity"
    /\ yielded.extracted_item.validated

\* C4: when entity synthesis raises the ValidationError, every record it
\* assembled failed validation, and it made exactly
\* DEFAULT_GENERATION_ATTEMPTS retries after its first attempt.
C4_RaisesAfterExactlyNRetries ==
    (pc = "extracted_item_raised" /\ error = "ValidationError") =>
        /\ attempts - 1 = DEFAULT_GENERATION_ATTEMPTS
        /\ attempts_left = 0

C4_Witness == pc = "extracted_item_raised" /\ error = "ValidationError"

\* C5 as stated: no request validates more than DEFAULT_GENERATION_ATTEMPTS
\* records.
C5_AtMostNAttempts == attempts <= DEFAULT_GENERATION_ATTEMPTS

\* C5: no request validates more than DEFAULT_GENERATION_ATTEMPTS + 1
\* records: the first attempt and at most DEFAULT_GENERATION_ATTEMPTS retries.
C5_AtMostNPlusOneAttempts == attempts <= DEFAULT_GENERATION_ATTEMPTS + 1

\* an entity returned by the last attempt the budget allows
C5_Witness ==
    /\ attempts = DEFAULT_GENERATION_ATTEMPTS + 1
    /\ pc = "loop"
    /\ HasItem(yielded)
    /\ ~HasRuleSet(yielded)

\* C6: every request for one record terminates: a call in flight ends, each
\* of its steps that does not end it uses up retry budget, which never
\* drops below zero; and it ends in one of two ways, with a validated
\* record or with an exception that leaves the generator.
C6_RequestTerminates ==
    /\ (pc \in InFlight) ~> (pc \notin InFlight)
    /\ [][(pc \in InFlight /\ pc' = pc) =>
             (attempts_left' < attempts_left /\ attempts_left' >= 0)]_vars
    /\ [][(pc \in InFlight /\ pc' # pc) =>
             \/ pc' \in Raised /\ error' # "none"
             \/ /\ pc' \notin Raised
                /\ error' = "none"
                /\ IF pc = "extracted_item"
                   THEN item'.validated
                        /\ ModelValidate(ModelFields(item'.stemType), item'.values)
                   ELSE rule_set'.validated]_vars

C6_Witness == pc = "loop" /\ attempts > 1 /\ HasItem(yielded)

\* C7: a resolved type without strategy makes field population raise the
\* RuntimeError whatever count would be drawn; the RuntimeError leaves the
\* provider call in the step it occurs in, with the retry budget and the
\* count of validated records untouched; budget is used up only by a
\* validated record.
C7_UnsupportedTypeIsFatal ==
    /\ [](\A stem_type \in AllStemTypes :
            \A i \in 1..Len(ModelFields(stem_type)) :
               LET field == ModelFields(stem_type)[i]
               IN  \A field_info \in get_random_field_info(field) :
                      (/\ field_info.kind \notin {"Identifier", "str", "int"}
                       /\ field_info.regex_patterns = <<>>) =>
                         \A mm \in min_max_for_field(field) :
                            FieldValueWith(field_info, mm, PyMap(ids_by_type))
                               = {[err |-> "RuntimeError", values |-> <<>>]})
    /\ [][(error' = "RuntimeError" /\ error = "none") =>
             /\ pc \in InFlight
             /\ pc' \in Raised
             /\ attempts_left' = attempts_left
             /\ attempts' = attempts]_vars
    /\ [][(pc' = pc /\ attempts_left' < attempts_left) =>
             attempts' = attempts + 1]_vars

C7_Witness == pc = "extracted_item_raised" /\ error = "RuntimeError"

\* the list fields of the schema: of the extracted classes and of the
\* additive rule classes
ListFields ==
    {f \in UNION {Range(ModelFields(t)) \cup Range(AdditiveFields(t)) :
                     t \in AllStemTypes} : f.is_list}

\* C8 as stated: the list field_value returns for a list field has a length
\* within the (min, max) resolved for the field and no duplicates.
C8_LengthWithinMinMax ==
    \A field \in ListFields :
       \A field_info \in get_random_field_info(field) :
          \A mm \in min_max_for_field(field) :
             \A o \in FieldValueWith(field_info, mm, PyMap(ids_by_type)) :
                o.err = "none" =>
                   /\ mm[1] <= Len(o.values)
                   /\ Len(o.values) <= mm[2]
                   /\ NoDuplicates(o.values)

\* C8: the list field_value returns for a list field has a length of at
\* most the max resolved for the field and no duplicates.
C8_LengthAtMostMax ==
    \A field \in ListFields :
       \A field_info \in get_random_field_info(field) :
          \A mm \in min_max_for_field(field) :
             \A o \in FieldValueWith(field_info, mm, PyMap(ids_by_type)) :
                o.err = "none" =>
                   /\ Len(o.values) <= mm[2]
                   /\ NoDuplicates(o.values)

\* an Activity was yielded whose contact list is shorter than the two draws
\* its bounds allow, with an id to draw twice
C8_Witness ==
    /\ yielded.extracted_item.stemType = "Activity"
    /\ Len(yielded.extracted_item.values[1]) = 1
    /\ <<1, 2>> \in min_max_for_field(ModelFields("Activity")[1])

\* C9: the first element yielded is the root primary source without
\* rule-set; every later element of the pair generator is the one its
\* drawn action determines: 0 an item only, 1 a rule-set only, 2 an item
\* and a rule-set with the item's stableTargetId; no pair is empty.
C9_PairByAction ==
    /\ n_yielded = 1 =>
          yielded = [extracted_item |-> MEX_PRIMARY_SOURCE, rule_set |-> NoRuleSet]
    /\ n_yielded >= 1 => HasItem(yielded) \/ HasRuleSet(yielded)
    /\ (Pairs /\ pc = "loop" /\ n_yielded > 1) =>
          /\ n_yielded = index + 1
          /\ action = 0 => HasItem(yielded) /\ ~HasRuleSet(yielded)
          /\ action = 1 => ~HasItem(yielded) /\ HasRuleSet(yielded)
          /\ action = 2 =>
                /\ HasItem(yielded)
                /\ HasRuleSet(yielded)
                /\ yielded.rule_set.stableTargetId
                      = yielded.extracted_item.stableTargetId

C9_Witness ==
    /\ Pairs
    /\ pc = "loop"
    /\ action = 2
    /\ HasItem(yielded)
    /\ HasRuleSet(yielded)

\* C10: the identity of a standalone rule-set the generator yields is
\* assigned for the seed string made of the generator's index of that
\* iteration.
C10_SeedFromIndex ==
    (Pairs /\ pc = "loop" /\ n_yielded > 1 /\ action = 1) =>
        yielded.rule_set.seed = FString("artificial-rule-set-", PyInt(index - 1))

\* C11: when the synthesis of a rule-set, standalone or for an item, ends
\* with a ValidationError, of the rule-set or of one of its rules, its retry
\* budget is used up: no ValidationError leaves it while budget remains.
C11_RuleSetValidationRetried ==
    (pc \in {"standalone_rule_set_raised", "rule_set_for_item_raised"}
        /\ error = "ValidationError") => attempts_left = 0

\* C12: two runs with the same seed produce the same output whatever the
\* time: the value temporal_entity has returned, called first after
\* Faker.seed(seed), is the value it returns for that seed at any other time.
C12_TemporalEntityIgnoresTime ==
    (provider_call.fn = "temporal_entity" /\ result.returned) =>
        \A now \in Clock :
            temporal_entity(ALLOWED_PRECISION_LEVELS, Seeded(random.seed), now).value
                = result.value

\* C13: whatever the order in which two generators are pulled, each of them
\* has yielded what it yields when it is the only one pulled.
C13_SessionsIsolated ==
    \A s \in SessionIds :
        sessions[s].started =>
            sessions[s].output
                = PulledAlone(<<Root>>, Seeded(sessions[s].seed),
                              Len(sessions[s].output) - 1)

\* C14: the registry only grows: in every step of a generator, for every
\* stem type, the ids known before the step are the first ids known after it,
\* in the same order.
C14_RegistryOnlyGrows ==
    [][\A t \in AllStemTypes :
          /\ Len(ids_by_type[t]) <= Len(ids_by_type'[t])
          /\ SubSeq(ids_by_type'[t], 1, Len(ids_by_type[t])) = ids_by_type[t]]_vars

\* the registry has grown twice for one stem type
C14_Witness == \E t \in AllStemTypes \ {"PrimarySource"} : Len(ids_by_type[t]) >= 2

\* C15: in a subtractive rule built from an entity, a field that carries a
\* removal set carries a non-empty one, every value of it is one of the
\* entity's values for that field, and it is no longer than the entity's
\* list of values for that field.
C15_RemovalSetOfEntityValues ==
    (provider_call.fn = "subtractive_rule" /\ result.returned) =>
        LET stem_type == provider_call.extracted_item.stemType
        IN  \A i \in DOMAIN result.value :
               result.value[i].present =>
                  LET current == ExtractedValues(stem_type, provider_call.extracted_item,
                                                 RuleClassFields(stem_type)[i])
                  IN  /\ result.value[i].values # <<>>
                      /\ Range(result.value[i].values) \subseteq Range(current)
                      /\ Len(result.value[i].values) <= Len(current)

\* a returned subtractive rule that removes one of the entity's two values
C15_Witness ==
    /\ provider_call.fn = "subtractive_rule"
    /\ result.returned
    /\ LET stem_type == provider_call.extracted_item.stemType
       IN  \E i \in DOMAIN result.value :
              /\ result.value[i].present
              /\ Len(result.value[i].values) = 1
              /\ Len(ExtractedValues(stem_type, provider_call.extracted_item,
                                     RuleClassFields(stem_type)[i])) = 2

\* C16: in a preventive rule built from an entity, every field that is not
\* a literal field holds the empty list or the one-element list of the
\* entity's primary-source id, and the literal fields are not populated.
C16_PreventiveValues ==
    (provider_call.fn = "preventive_rule" /\ result.returned) =>
        LET stem_type == provider_call.extracted_item.stemType
        IN  \A i \in DOMAIN result.value :
               IF RuleClassFields(stem_type)[i] \in LiteralFields
               THEN ~result.value[i].present
               ELSE /\ result.value[i].present
                    /\ \/ result.value[i].values = <<>>
                       \/ result.value[i].values
                              = <<provider_call.extracted_item.hadPrimarySource>>

\* a returned preventive rule with a field that names the primary source
C16_Witness ==
    /\ provider_call.fn = "preventive_rule"
    /\ result.returned
    /\ \E i \in DOMAIN result.value :
          /\ result.value[i].present
          /\ result.value[i].values = <<provider_call.extracted_item.hadPrimarySource>>

\* C17: rule_set_for_item populates the rules of a sample of the three rule
\* names, and the sample can have any size from 0 to 3: whenever the method
\* is called, a result without any rule and a result with all three rules
\* are both among its possible results.
C17_AnySampleSize ==
    pc = "rule_set_for_item" =>
        /\ \A raw_data \in RuleSetForItemCall : raw_data.rules \subseteq RuleNames
        /\ \A size \in 0..3 :
              \E raw_data \in RuleSetForItemCall : Cardinality(raw_data.rules) = size

\* the number of entities of a stem type synthesized so far, as long as each
\* of them got a local identifier of its own
SynthesizedOf(stem_type) ==
    Cardinality({identities[k].local :
                    k \in {j \in 1..Len(identities) :
                              identities[j].local.prefix = stem_type}})

\* C18: the entity that extracted_item returns has the local identifier
\* made of its stem type and of the number of entities of that stem type
\* synthesized before it in the session, and the first element after the
\* root has the root primary source as its primary source.
C18_LocalIdentifierCountsPerType ==
    [][(pc = "extracted_item" /\ pc' \in {"loop", "rule_set_for_item"}) =>
          /\ item'.identifierInPrimarySource
                = FString(item'.stemType, PyInt(SynthesizedOf(item'.stemType)))
          /\ n_yielded = 1 =>
                item'.hadPrimarySource = MEX_PRIMARY_SOURCE.stableTargetId]_vars

\* C19: min_max_for_field returns, for a list field, the declared minimum
\* length (0 when none is declared) as min and the declared maximum length
\* as max, or, when no maximum is declared, one of 1, 2, 3, 4, 5, 10 plus
\* the declared minimum; for a scalar field it returns min 1 when the field
\* is required and 0 otherwise, and max 1.
C19_MinMaxForField ==
    (provider_call.fn = "min_max_for_field" /\ result.returned) =>
        LET field == provider_call.field
            min_items == result.value[1]
            max_items == result.value[2]
        IN  IF field.is_list
            THEN /\ min_items = field.min_length
                 /\ IF field.max_length > 0
                    THEN max_items = field.max_length
                    ELSE max_items - field.min_length \in {1, 2, 3, 4, 5, 10}
            ELSE /\ min_items = (IF field.required THEN 1 ELSE 0)
                 /\ max_items = 1

\* the method has returned for a list field that declares a minimum length
\* and no maximum length
C19_Witness ==
    /\ provider_call.fn = "min_max_for_field"
    /\ result.returned
    /\ provider_call.field.is_list
    /\ provider_call.field.min_length > 0
    /\ provider_call.field.max_length = 0

\* the strings numerify can make of the examples of a field
NumerifiedOf(field) ==
    UNION {UNION {[1..Len(example) -> Digits] : example \in Range(arm.examples)} :
              arm \in field.arms}

\* C20: numerify_patterns makes at most 10 attempts; a string it returns
\* starts with one digit of each class of the regex pattern drawn in the
\* attempt that made it, and ends there when the pattern is anchored; it
\* returns None only after 10 attempts without a match; and the list
\* field_value returns holds no None.
C20_NumerifyPatternsBounded ==
    /\ provider_call.fn = "numerify_patterns" =>
          /\ result.turns <= 10
          /\ (result.returned /\ result.value # None) =>
                \E numerified \in NumerifiedOf(provider_call.field) :
                   /\ EncodeStr(numerified) = result.value
                   /\ Len(numerified) >= Len(result.regex_pattern.classes)
                   /\ result.regex_pattern.anchored =>
                         Len(numerified) = Len(result.regex_pattern.classes)
                   /\ \A i \in 1..Len(result.regex_pattern.classes) :
                         numerified[i] \in result.regex_pattern.classes[i]
          /\ (result.returned /\ result.value = None) => result.turns = 10
    /\ (provider_call.fn = "field_value" /\ result.returned) =>
          /\ None \notin Range(result.value.values)
          /\ (\E info \in get_random_field_info(provider_call.field) :
                 info.regex_patterns # <<>> /\ info.numerify_patterns # <<>>) =>
                result.value.err = "none"

\* ten attempts have missed and numerify_patterns has returned None
C20_Witness ==
    /\ provider_call.fn = "numerify_patterns"
    /\ result.returned
    /\ result.value = None
    /\ result.turns = 10

\* the entities of the stream yielded so far
EmittedEntities ==
    {sessions[1].output[k].extracted_item :
        k \in {j \in 1..Len(sessions[1].output) : HasItem(sessions[1].output[j])}}

\* the ids held in the reference fields of an entity
References(e) ==
    {e.hadPrimarySource} \cup
    UNION {Range(e.values[i]) :
              i \in {j \in 1..Len(ModelFields(e.stemType)) :
                        \A arm \in ModelFields(e.stemType)[j].arms :
                           arm.kind = "Identifier"}}

\* the reference graph over stable target ids, without the root primary
\* source naming itself as its primary source
ReferenceGraph ==
    UNION {{<<e.stableTargetId, id>> : id \in References(e)} :
              e \in EmittedEntities \ {MEX_PRIMARY_SOURCE}}

\* the pairs joined by a chain of at most n + 1 edges
RECURSIVE Chains(_, _)
Chains(edges, n) ==
    IF n = 0 THEN edges
    ELSE Chains(edges \cup {<<a[1], b[2]>> :
                               <<a, b>> \in {x \in edges \X edges : x[1][2] = x[2][1]}},
                n - 1)

\* C21: after any number of pulls no chain of references between the
\* stable target ids of the emitted entities leads back to its start, the
\* root primary source naming itself left aside.
C21_ReferenceGraphAcyclic ==
    \A chain \in Chains(ReferenceGraph, Cardinality(ReferenceGraph)) :
        chain[1] # chain[2]

\* an emitted entity references an emitted entity that references a third
C21_Witness ==
    \E a \in ReferenceGraph : \E b \in ReferenceGraph :
        /\ a[2] = b[1]
        /\ b[2] # MEX_PRIMARY_SOURCE.stableTargetId

\* C22: a validation failure of extracted_item that is retried takes one
\* unit of the retry budget and keeps nothing of the failed record: no
\* item, no identity and no id is stored, and the attempt that follows can
\* return every record the first attempt could, of every stem type of the
\* allow-list; the model returned in the end is one of these records.
C22_RetryRegeneratesRecord ==
    [][/\ (pc = "extracted_item" /\ pc' = "extracted_item") =>
             /\ attempts_left' = attempts_left - 1
             /\ item' = NoItem
             /\ UNCHANGED <<ids_by_type, identities, yielded, n_yielded>>
             /\ ExtractedItemCall' = ExtractedItemCall
             /\ \A stem_type \in Range(stem_types) :
                   \E raw_data \in ExtractedItemCall' : raw_data.stemType = stem_type
       /\ (pc = "extracted_item" /\ pc' \in {"loop", "rule_set_for_item"}) =>
             \E raw_data \in ExtractedItemCall :
                 /\ raw_data.valid
                 /\ item' = ExtractedModel(raw_data, identities)]_vars

\* extracted_item has returned a model after one failed attempt
C22_Witness ==
    /\ pc = "loop"
    /\ action = 0
    /\ attempts_left = AttemptsLeftDefault - 1
    /\ attempts = 2
    /\ yielded.extracted_item.validated

\* C23: no two entities of the stream yielded so far have the same stable
\* target id, or the same primary-source id and local identifier.
C23_EmittedIdsDistinct ==
    \A j \in 1..Len(sessions[1].output) : \A k \in 1..Len(sessions[1].output) :
        (j < k /\ HasItem(sessions[1].output[j]) /\ HasItem(sessions[1].output[k])) =>
            LET first == sessions[1].output[j].extracted_item
                second == sessions[1].output[k].extracted_item
            IN  /\ first.stableTargetId # second.stableTargetId
                /\ ~(/\ first.hadPrimarySource = second.hadPrimarySource
                     /\ first.identifierInPrimarySource
                            = second.identifierInPrimarySource)

\* C24: every id in ids_by_type is the stable target id of the root
\* primary source or of an entity yielded earlier in the stream.
C24_RegisteredIdsAreEmittedEntities ==
    \A stem_type \in AllStemTypes :
        Range(ids_by_type[stem_type]) \subseteq
            {e.stableTargetId : e \in EmittedEntities \cup {MEX_PRIMARY_SOURCE}}

\* the stable target ids an element of the stream carries
ElementIds(pair) ==
    (IF HasItem(pair) THEN {pair.extracted_item.stableTargetId} ELSE {})
    \cup (IF HasRuleSet(pair) THEN {pair.rule_set.stableTargetId} ELSE {})

\* the ids carried by the first n elements of the stream
YieldedIds(n) == UNION {ElementIds(sessions[1].output[j]) : j \in 1..n}

\* the ids held in the reference fields of the additive rule of a rule-set
AdditiveReferences(r) ==
    UNION {Range(r.additive[i]) :
              i \in {j \in 1..Len(r.additive) :
                        \A arm \in AdditiveFields(r.stemType)[j].arms :
                           arm.kind = "Identifier"}}

\* C24, amended: once the root is yielded, every id in ids_by_type is the
\* stable target id of an element yielded earlier in the stream, an entity
\* or a standalone rule-set, and every reference value of a yielded entity
\* or additive rule is the id of an element yielded before it.
C24_RegisteredIdsAreYieldedElements ==
    pc # "start" =>
        /\ \A stem_type \in AllStemTypes :
              Range(ids_by_type[stem_type])
                  \subseteq YieldedIds(Len(sessions[1].output))
        /\ \A k \in 2..Len(sessions[1].output) :
              LET pair == sessions[1].output[k]
              IN  /\ HasItem(pair) =>
                        References(pair.extracted_item) \subseteq YieldedIds(k - 1)
                  /\ HasRuleSet(pair) =>
                        AdditiveReferences(pair.rule_set) \subseteq YieldedIds(k - 1)

\* a yielded entity references the id of a standalone rule-set
C24_Witness ==
    \E j \in 1..Len(sessions[1].output) : \E k \in 1..Len(sessions[1].output) :
        /\ j < k
        /\ ~HasItem(sessions[1].output[j])
        /\ HasItem(sessions[1].output[k])
        /\ sessions[1].output[j].rule_set.stableTargetId
               \in References(sessions[1].output[k].extracted_item)
               \ {MEX_PRIMARY_SOURCE.stableTargetId}

\* C25: ids_by_type changes only in the step in which the generator, after
\* extracted_item or standalone_rule_set has returned a model, registers
\* its id and yields; no step of a provider call, be it a retry, a return
\* or a raise, changes it, so a generator that ends in an exception has the
\* ids it had when the iteration began.
C25_OnlyTheDriverRegisters ==
    [][/\ ids_by_type' # ids_by_type =>
             /\ pc \in {"extracted_item", "standalone_rule_set"}
             /\ pc' = "loop"
             /\ n_yielded' = n_yielded + 1
             /\ error' = "none"
             /\ \E stem_type \in AllStemTypes :
                   /\ ids_by_type' =
                         [ids_by_type EXCEPT ![stem_type] =
                             Append(@, IF HasItem(yielded')
                                       THEN yielded'.extracted_item.stableTargetId
                                       ELSE yielded'.rule_set.stableTargetId)]
       /\ (pc' \in Raised \/ pc' = pc \/ pc' = "rule_set_for_item") =>
             ids_by_type' = ids_by_type]_vars

\* a provider call has raised in an iteration that began with ids registered
C25_Witness ==
    /\ pc \in Raised
    /\ \E stem_type \in AllStemTypes \ {"PrimarySource"} :
          ids_by_type[stem_type] # <<>>

====
